---- MODULE Spec2Model ----
(***************************************************************************)
(* Model of the e-mail confirmation worker of src/email_confirm.py:        *)
(* the producer facade (MailProducer), the task queue, the message loop    *)
(* and the three handlers of MailWorker, and the batch sender task with    *)
(* its SMTP delivery (_batch_sender / _send_batch).                        *)
(*                                                                         *)
(* Time is an integer number of ticks, TicksPerSecond ticks to the second, *)
(* so that the float arithmetic on time.time() and the int() truncation of *)
(* _handle_status can be told apart.  The clock only moves forward: by a   *)
(* dispatch interval, or (once) by a single tick that takes it off the     *)
(* whole-second grid.                                                      *)
(*                                                                         *)
(* A record of _status is a Python dict object: _batch_sender keeps        *)
(* references to the objects it selected and writes to them after the      *)
(* delivery returned, whatever _status holds by then.  heap holds the      *)
(* objects; every object is allocated together with a fresh token          *)
(* (lines 94-96) and never changes it, so the token is the object's        *)
(* identity.  status maps an address to the object it refers to.           *)
(*                                                                         *)
(* The two tasks run on one asyncio event loop: a handler has no await and *)
(* is one step; _batch_sender is one step per await.                       *)
(***************************************************************************)
EXTENDS Integers, Sequences, FiniteSets, TLC

\* ---- program constants ---------------------------------------------------
BATCH_INTERVAL == 10
RESEND_WINDOW == 30

\* ---- bounds of the model -------------------------------------------------
TicksPerSecond == 2
MaxSeconds == 40
MaxTokens == 2

Interval == BATCH_INTERVAL * TicksPerSecond
Window == RESEND_WINDOW * TicksPerSecond
MaxTime == MaxSeconds * TicksPerSecond + 1

\* the empty string is an address like any other to the producer
Addresses == {"", "a"}
\* coroutines that may be suspended in _call at the same time
Callers == {"c1", "c2"}
Tokens == 1..MaxTokens
NoToken == 0
\* a token string that secrets.token_urlsafe never returned
Forged == MaxTokens + 1

VARIABLES
    now,        \* time.time(), in ticks
    jittered,   \* the clock has left the whole-second grid
    running,    \* MailWorker._running
    q,          \* _QUEUE: sequence of Task
    futs,       \* the future of each caller's current _call
    heap,       \* record objects, by identity
    status,     \* MailWorker._status: address -> record object
    token_map,  \* MailWorker._token_map: token -> address
    nextToken,  \* number of tokens drawn from secrets.token_urlsafe, plus 1
    pc,         \* position of the _batch_sender task
    wakeAt,     \* deadline of the pending asyncio.sleep(BATCH_INTERVAL)
    batch,      \* local `batch` of _batch_sender: set of (email, rec)
    todo,       \* items of batch the loop of _send_batch has not reached
    failed,     \* items whose smtp.send_message raised (printed, line 150)
    \* history, written by Observe only and read by no action; watch names
    \* the history a behaviour keeps, the others stay as Init sets them
    watch,
    prev,       \* the pair of requests served last
    lastHanded, \* address -> time a token of it was last handed over, or -1
    redeemed,   \* tokens for which a confirm replied True
    superseded, \* tokens replaced by a resend after the window
    denied,     \* superseded tokens a later confirm was served for
    seen,       \* address -> what status reads showed since its confirm
    order,      \* the callers with a message in the queue, oldest first
    last,       \* the serve step taken last: sender position, queue behind
    handed      \* tokens handed to _send_batch so far

prog == <<now, jittered, running, q, futs, heap, status, token_map, nextToken,
          pc, wakeAt, batch, todo, failed>>
hist == <<watch, prev, lastHanded, redeemed, superseded, denied, seen,
          order, last, handed>>
vars == <<prog, hist>>

\* ---- Python dict helpers -------------------------------------------------
Put(d, k, v) == [x \in (DOMAIN d) \cup {k} |-> IF x = k THEN v ELSE d[x]]
Pop(d, k) == [x \in (DOMAIN d) \ {k} |-> d[x]]
EmptyDict == [x \in {} |-> 0]

Max(a, b) == IF a > b THEN a ELSE b

\* objects still referenced from _status or from the sender's batch
Reachable(st, b) == {st[e] : e \in DOMAIN st} \cup {it.rec : it \in b}
Collect(h, st, b) == [r \in (DOMAIN h) \cap Reachable(st, b) |-> h[r]]

\* ---- tasks and replies ---------------------------------------------------
Task(op, email, token, fut) ==
    [op |-> op, email |-> email, token |-> token, fut |-> fut]

NoFuture == [state |-> "none", kind |-> "none", ok |-> FALSE,
             sent |-> 0, timer |-> 0, confirmed |-> 0]
Pending == [NoFuture EXCEPT !.state = "pending"]
BoolResult(b) == [state |-> "done", kind |-> "bool", ok |-> b,
                  sent |-> 0, timer |-> 0, confirmed |-> 0]
NoneResult == [state |-> "done", kind |-> "none", ok |-> FALSE,
               sent |-> 0, timer |-> 0, confirmed |-> 0]
DictResult(s, t, c) == [state |-> "done", kind |-> "dict", ok |-> FALSE,
                        sent |-> s, timer |-> t, confirmed |-> c]
IntOf(b) == IF b THEN 1 ELSE 0

\* ---- initial state -------------------------------------------------------
InitProgram ==
    /\ now = 0
    /\ jittered = FALSE
    /\ running = FALSE
    /\ q = <<>>
    /\ futs = [c \in Callers |-> NoFuture]
    /\ heap = EmptyDict
    /\ status = EmptyDict
    /\ token_map = EmptyDict
    /\ nextToken = 1
    /\ pc = "init"
    /\ wakeAt = 0
    /\ batch = {}
    /\ todo = {}
    /\ failed = {}

NoCall == [stage |-> 0, email |-> "", at |-> 0, ok |-> FALSE,
           marked |-> FALSE, rotated |-> FALSE]
NotSeen == [n |-> -1, gone |-> FALSE]
NoServe == [at |-> "init", behind |-> 0]

InitHistory ==
    /\ prev = NoCall
    /\ lastHanded = [a \in Addresses |-> -1]
    /\ redeemed = {}
    /\ superseded = {}
    /\ denied = {}
    /\ seen = [a \in Addresses |-> NotSeen]
    /\ order = <<>>
    /\ last = NoServe
    /\ handed = {}

Init == InitProgram /\ InitHistory /\ watch = "none"
InitCalls == InitProgram /\ InitHistory /\ watch = "calls"
InitPacing == InitProgram /\ InitHistory /\ watch = "pacing"
InitRedeem == InitProgram /\ InitHistory /\ watch = "redeem"
InitResend == InitProgram /\ InitHistory /\ watch = "resend"
InitPurge == InitProgram /\ InitHistory /\ watch = "purge"
InitQueue == InitProgram /\ InitHistory /\ watch = "queue"
InitOnce == InitProgram /\ InitHistory /\ watch = "once"
InitDispatch == InitProgram /\ InitHistory /\ watch = "dispatch"
InitServe == InitProgram /\ InitHistory /\ watch = "serve"

\* the callers a behaviour lets call concurrently, the addresses they ask
\* about and the time it covers: with two concurrent callers, one address
\* and one dispatch cycle; for the progress of the message loop, one caller,
\* one address and one cycle; for the progress of the batch sender, one
\* caller and one address
Concurrent == IF watch = "queue" THEN Callers ELSE {"c1"}
Asked == IF watch \in {"queue", "serve", "dispatch"} THEN {"a"} ELSE Addresses
Horizon == IF watch \in {"queue", "serve"} THEN Interval + 1 ELSE MaxTime

\* ---- history -------------------------------------------------------------
\* the step is an iteration of the message loop, serving Head(q)
Served == q # <<>> /\ q' = Tail(q)
ServedOp(op) == Served /\ Head(q).op = op
ServedFor(op, a) == ServedOp(op) /\ Head(q).email = a
Reply == futs'[Head(q).fut]
\* the step hands a batch to _send_batch / returns from it and marks
Handed == pc = "sleep" /\ pc' = "connect"
Returned == pc = "send" /\ pc' = "sleep"

Live(a) == a \in DOMAIN status
Rec(a) == heap[status[a]]
\* the request creates a record or replaces the one there is
Honored(a) == a \in DOMAIN status' /\ (Live(a) => status'[a] # status[a])
\* a confirm that replies True for the current token of a
ConfirmedNow(a) ==
    /\ ServedOp("confirm") /\ Reply.ok
    /\ Live(a) /\ status[a] = Head(q).token
\* a request for a sent, unconfirmed record whose window is over
Resend(a) ==
    /\ ServedFor("request", a) /\ Live(a)
    /\ Rec(a).sent /\ ~Rec(a).confirmed /\ now - Rec(a).ts >= Window

\* the callers whose _call put a message in this step
Arrived == {c \in Callers : futs[c].state # "pending" /\ futs'[c].state = "pending"}

ObservePrev ==
    IF ~Served THEN prev
    ELSE LET t == Head(q) IN
         IF t.op = "request" /\ ~Live(t.email)
         THEN [stage |-> 1, email |-> t.email, at |-> now, ok |-> Reply.ok,
               marked |-> FALSE, rotated |-> FALSE]
         ELSE IF /\ t.op = "request" /\ prev.stage = 1 /\ prev.email = t.email
                 /\ now - prev.at < Window /\ Live(t.email)
         THEN [stage |-> 2, email |-> t.email, at |-> prev.at, ok |-> Reply.ok,
               marked |-> Rec(t.email).sent, rotated |-> Honored(t.email)]
         ELSE NoCall

ObserveSeen(a) ==
    IF ConfirmedNow(a) THEN [n |-> 0, gone |-> FALSE]
    ELSE IF ServedFor("status", a) /\ Reply.kind = "dict" /\ Reply.confirmed = 1
    THEN [seen[a] EXCEPT !.n = IF @ < 2 THEN @ + 1 ELSE @]
    ELSE IF ServedFor("status", a) /\ Reply.kind = "none" /\ seen[a].n >= 1
    THEN [seen[a] EXCEPT !.gone = TRUE]
    ELSE IF ServedFor("request", a) /\ ~Live(a)
    THEN NotSeen
    ELSE seen[a]

Observe ==
    /\ UNCHANGED watch
    /\ prev' = IF watch = "calls" THEN ObservePrev ELSE prev
    /\ lastHanded' = [a \in Addresses |->
          IF watch = "pacing" /\ Handed /\ a \in {it.email : it \in batch'}
          THEN now ELSE lastHanded[a]]
    /\ redeemed' = IF watch = "redeem" /\ ServedOp("confirm") /\ Reply.ok
                   THEN redeemed \cup {Head(q).token} ELSE redeemed
    /\ superseded' = IF watch = "resend" /\ \E a \in Addresses : Resend(a)
                     THEN superseded \cup {Rec(Head(q).email).token}
                     ELSE superseded
    /\ denied' = IF /\ watch = "resend" /\ ServedOp("confirm")
                    /\ Head(q).token \in superseded
                 THEN denied \cup {Head(q).token} ELSE denied
    /\ seen' = [a \in Addresses |->
          IF watch = "purge" THEN ObserveSeen(a) ELSE seen[a]]
    /\ order' = IF watch # "queue" THEN order
                ELSE IF Arrived # {} THEN Append(order, CHOOSE c \in Arrived : TRUE)
                ELSE IF Served THEN Tail(order)
                ELSE order
    /\ last' = IF watch \in {"queue", "serve"} /\ Served
               THEN [at |-> pc, behind |-> Len(q) - 1] ELSE last
    /\ handed' = IF watch = "once" /\ Handed
                 THEN handed \cup {it.rec : it \in batch'} ELSE handed

\* ---- the clock -----------------------------------------------------------
TickSmall ==
    /\ ~jittered
    /\ now + 1 <= Horizon
    /\ now' = now + 1
    /\ jittered' = TRUE
    /\ UNCHANGED <<running, q, futs, heap, status, token_map, nextToken,
                   pc, wakeAt, batch, todo, failed>>
    /\ Observe

TickInterval ==
    /\ now + Interval <= Horizon
    /\ now' = now + Interval
    /\ UNCHANGED <<jittered, running, q, futs, heap, status, token_map,
                   nextToken, pc, wakeAt, batch, todo, failed>>
    /\ Observe

\* ---- MailWorker.run ------------------------------------------------------
\* create_task(_batch_sender): the task starts in its first sleep
Run ==
    /\ ~running
    /\ running' = TRUE
    /\ pc' = "sleep"
    /\ wakeAt' = now + Interval
    /\ UNCHANGED <<now, jittered, q, futs, heap, status, token_map, nextToken,
                   batch, todo, failed>>
    /\ Observe

\* ---- MailProducer --------------------------------------------------------
\* _call up to its `await fut`; the caller is suspended until fut is set
\* line 36: asyncio.Queue.put, on an unbounded queue
Enqueue_Front(queue, t) == <<t>> \o queue
Enqueue(queue, t) == Append(queue, t)

Call(c, op, email, token) ==
    /\ c \in Concurrent
    /\ futs[c].state # "pending"
    /\ futs' = [futs EXCEPT ![c] = Pending]
    /\ q' = Enqueue(q, Task(op, email, token, c))
    /\ UNCHANGED <<now, jittered, running, heap, status, token_map, nextToken,
                   pc, wakeAt, batch, todo, failed>>
    /\ Observe

\* a request is made only while a token is left for it and for every request
\* queued before it
Requests == Cardinality({i \in 1..Len(q) : q[i].op = "request"})
email_confirm ==
    /\ nextToken + Requests <= MaxTokens
    /\ \E c \in Callers, e \in Asked : Call(c, "request", e, NoToken)
is_confirm == \E c \in Callers, e \in Asked : Call(c, "status", e, NoToken)
mark_confirmed ==
    \E c \in Callers, t \in (1..(nextToken - 1)) \cup {Forged} :
        Call(c, "confirm", "", t)

\* ---- the handlers --------------------------------------------------------
\* line 88
TooSoon_NoSentTest(rec, t) == t - rec.ts < Window
TooSoon_Inclusive(rec, t) == rec.sent /\ t - rec.ts <= Window
TooSoon_Reversed(rec, t) == rec.sent /\ t - rec.ts > Window
TooSoon(rec, t) == rec.sent /\ t - rec.ts < Window

\* lines 105-107: int() truncates the elapsed seconds
Remain_Rounded(rec, t) ==
    IF rec.sent
    THEN Max(0, RESEND_WINDOW - ((t - rec.ts + TicksPerSecond - 1) \div TicksPerSecond))
    ELSE 0
Remain(rec, t) ==
    IF rec.sent
    THEN Max(0, RESEND_WINDOW - ((t - rec.ts) \div TicksPerSecond))
    ELSE 0

\* lines 108-110
Snapshot(rec, t) ==
    DictResult(IntOf(rec.sent), Remain(rec, t), IntOf(rec.confirmed))

\* lines 95-96
NewRecord(token) == [sent |-> FALSE, ts |-> 0, confirmed |-> FALSE, token |-> token]

\* line 92
DropOld_Kept(tm, rec) == tm
DropOld(tm, rec) == Pop(tm, rec.token)

_handle_request(t) ==
    LET has == t.email \in DOMAIN status
        rec == heap[status[t.email]]
    IN  IF has /\ rec.confirmed
        THEN /\ futs' = [futs EXCEPT ![t.fut] = BoolResult(TRUE)]
             /\ UNCHANGED <<heap, status, token_map, nextToken>>
        ELSE IF has /\ TooSoon(rec, now)
        THEN /\ futs' = [futs EXCEPT ![t.fut] = BoolResult(FALSE)]
             /\ UNCHANGED <<heap, status, token_map, nextToken>>
        ELSE /\ nextToken <= MaxTokens
             /\ LET tm == IF has THEN DropOld(token_map, rec) ELSE token_map
                    token == nextToken
                    st == Put(status, t.email, token)
                IN  /\ status' = st
                    /\ heap' = Collect(Put(heap, token, NewRecord(token)), st, batch)
                    /\ token_map' = Put(tm, token, t.email)
                    /\ nextToken' = nextToken + 1
             /\ futs' = [futs EXCEPT ![t.fut] = BoolResult(TRUE)]

_cleanup_Forgotten(email, token) ==
    /\ token_map' = Pop(token_map, token)
    /\ UNCHANGED <<status, heap>>
_cleanup(email, token) ==
    /\ status' = Pop(status, email)
    /\ token_map' = Pop(token_map, token)
    /\ heap' = Collect(heap, Pop(status, email), batch)

_handle_status(t) ==
    /\ UNCHANGED nextToken
    /\ IF t.email \notin DOMAIN status
       THEN /\ futs' = [futs EXCEPT ![t.fut] = NoneResult]
            /\ UNCHANGED <<heap, status, token_map>>
       ELSE LET rec == heap[status[t.email]]
            IN  /\ futs' = [futs EXCEPT ![t.fut] = Snapshot(rec, now)]
                /\ IF rec.confirmed
                   THEN _cleanup(t.email, rec.token)
                   ELSE UNCHANGED <<heap, status, token_map>>

\* line 117, `not email`: true of None and of the empty string
Falsy(email) == email = ""

_handle_confirm(t) ==
    /\ UNCHANGED <<status, nextToken>>
    /\ token_map' = Pop(token_map, t.token)
    /\ IF t.token \notin DOMAIN token_map
       THEN /\ futs' = [futs EXCEPT ![t.fut] = BoolResult(FALSE)]
            /\ UNCHANGED heap
       ELSE LET email == token_map[t.token]
            IN  IF Falsy(email)
                THEN /\ futs' = [futs EXCEPT ![t.fut] = BoolResult(FALSE)]
                     /\ UNCHANGED heap
                ELSE IF email \in DOMAIN status
                THEN /\ heap' = [heap EXCEPT ![status[email]].confirmed = TRUE]
                     /\ futs' = [futs EXCEPT ![t.fut] = BoolResult(TRUE)]
                ELSE /\ futs' = [futs EXCEPT ![t.fut] = BoolResult(FALSE)]
                     /\ UNCHANGED heap

\* one iteration of the message loop of run
Serve_WhenIdle(op) ==
    /\ running
    /\ pc \in {"init", "sleep"}
    /\ q # <<>>
    /\ Head(q).op = op
    /\ q' = Tail(q)
    /\ UNCHANGED <<now, jittered, running, pc, wakeAt, batch, todo, failed>>
Serve(op) ==
    /\ running
    /\ q # <<>>
    /\ Head(q).op = op
    /\ q' = Tail(q)
    /\ UNCHANGED <<now, jittered, running, pc, wakeAt, batch, todo, failed>>

ServeRequest == Serve("request") /\ _handle_request(Head(q)) /\ Observe
ServeStatus == Serve("status") /\ _handle_status(Head(q)) /\ Observe
ServeConfirm == Serve("confirm") /\ _handle_confirm(Head(q)) /\ Observe

\* ---- _batch_sender and _send_batch ---------------------------------------
\* lines 131-132
Selection_OnlyConfirmed ==
    {[email |-> e, rec |-> status[e]] : e \in
        {x \in DOMAIN status :
            ~heap[status[x]].sent /\ heap[status[x]].confirmed}}
Selection_IgnoresSent ==
    {[email |-> e, rec |-> status[e]] : e \in
        {x \in DOMAIN status : ~heap[status[x]].confirmed}}
Selection == {[email |-> e, rec |-> status[e]] : e \in
                 {x \in DOMAIN status :
                     ~heap[status[x]].sent /\ ~heap[status[x]].confirmed}}

\* the sleep is over: scan; an empty selection goes back to sleep
Scan ==
    /\ pc = "sleep"
    /\ now >= wakeAt
    /\ batch' = Selection
    /\ heap' = Collect(heap, status, Selection)
    /\ failed' = {}
    /\ IF Selection = {}
       THEN /\ wakeAt' = now + Interval
            /\ UNCHANGED pc
       ELSE /\ pc' = "connect"
            /\ UNCHANGED wakeAt
    /\ UNCHANGED <<now, jittered, running, q, futs, status, token_map,
                   nextToken, todo>>
    /\ Observe

SenderFrame == UNCHANGED <<now, jittered, running, q, futs, status, token_map,
                           nextToken, wakeAt, batch>>

\* line 143 returned
Connect ==
    /\ pc = "connect"
    /\ pc' = "login"
    /\ UNCHANGED <<heap, todo, failed>>
    /\ SenderFrame
    /\ Observe

\* line 144 returned
Login ==
    /\ pc = "login"
    /\ pc' = "send"
    /\ todo' = batch
    /\ UNCHANGED <<heap, failed>>
    /\ SenderFrame
    /\ Observe

\* smtp.connect, smtp.login or smtp.quit raises: nothing catches it and the
\* _batch_sender task ends
TransportError ==
    /\ \/ pc \in {"connect", "login"}
       \/ pc = "send" /\ todo = {}
    /\ pc' = "dead"
    /\ UNCHANGED <<heap, todo, failed>>
    /\ SenderFrame
    /\ Observe

\* lines 146-150 for one item: the exception of send_message is caught
SendItem(ok) ==
    /\ pc = "send"
    /\ \E it \in todo :
          /\ todo' = todo \ {it}
          /\ failed' = IF ok THEN failed ELSE failed \cup {it}
    /\ UNCHANGED <<heap, pc>>
    /\ SenderFrame
    /\ Observe

SendOk == SendItem(TRUE)
SendFails == SendItem(FALSE)

\* lines 136-139
Marked_OnlyDelivered(h, b, t) ==
    [r \in DOMAIN h |->
        IF r \in {it.rec : it \in b \ failed}
        THEN [h[r] EXCEPT !.sent = TRUE, !.ts = t]
        ELSE h[r]]
Marked_ByAddress(h, b, t) ==
    [r \in DOMAIN h |->
        IF r \in {status[it.email] : it \in {i \in b : i.email \in DOMAIN status}}
        THEN [h[r] EXCEPT !.sent = TRUE, !.ts = t]
        ELSE h[r]]
Marked(h, b, t) ==
    [r \in DOMAIN h |->
        IF r \in {it.rec : it \in b}
        THEN [h[r] EXCEPT !.sent = TRUE, !.ts = t]
        ELSE h[r]]

\* smtp.quit returned: lines 136-139, then the next sleep
QuitAndMark ==
    /\ pc = "send"
    /\ todo = {}
    /\ heap' = Marked(heap, batch, now)
    /\ pc' = "sleep"
    /\ wakeAt' = now + Interval
    /\ UNCHANGED <<now, jittered, running, q, futs, status, token_map,
                   nextToken, batch, todo, failed>>
    /\ Observe

Next ==
    \/ TickSmall
    \/ TickInterval
    \/ Run
    \/ email_confirm
    \/ is_confirm
    \/ mark_confirmed
    \/ ServeRequest
    \/ ServeStatus
    \/ ServeConfirm
    \/ Scan
    \/ Connect
    \/ Login
    \/ TransportError
    \/ SendOk
    \/ SendFails
    \/ QuitAndMark

Spec == Init /\ [][Next]_vars
SpecCalls == InitCalls /\ [][Next]_vars
SpecPacing == InitPacing /\ [][Next]_vars
SpecRedeem == InitRedeem /\ [][Next]_vars
SpecResend == InitResend /\ [][Next]_vars
SpecPurge == InitPurge /\ [][Next]_vars
SpecQueue == InitQueue /\ [][Next]_vars
SpecOnce == InitOnce /\ [][Next]_vars

\* the event loop runs a task that is ready: run once it is created, and the
\* message loop whenever the queue holds a task (line 68); the batch sender
\* may stay suspended in an await for ever
MessageLoop == ServeRequest \/ ServeStatus \/ ServeConfirm
SpecServe ==
    InitServe /\ [][Next]_vars /\ WF_vars(Run \/ MessageLoop)

\* the batch sender is resumed when its sleep is over, and every await of a
\* delivery completes: by returning or by raising
Delivery == Connect \/ Login \/ SendOk \/ SendFails \/ QuitAndMark
SpecDispatch ==
    InitDispatch /\ [][Next]_vars /\ WF_vars(Scan) /\ WF_vars(Delivery \/ TransportError)

\* ==== the claims ==========================================================

\* C1 as stated: for an address with no record, two requests less than the
\* resend window apart (served one after the other) reply true, then false.
C1_TrueThenFalse ==
    /\ prev.stage = 1 => prev.ok
    /\ prev.stage = 2 => ~prev.ok

\* C1, amended: the first request replies true; the second, served next and
\* less than the resend window later, replies false exactly when a dispatch
\* cycle marked the record sent between the two, and otherwise replies true
\* and replaces the record and its token.
C1_FalseOnlyOnceSent ==
    /\ prev.stage = 1 => prev.ok
    /\ prev.stage = 2 => /\ prev.ok <=> ~prev.marked
                         /\ prev.ok <=> prev.rotated

C1_Witness == prev.stage = 2 /\ prev.marked /\ ~prev.ok

\* C2 as stated: after a token of an address was handed to the delivery at
\* time T no request for the address is honored before T + window, and two
\* hand-overs for one address are at least a window apart.
C2_Paced ==
    [][ /\ \A a \in Addresses :
             (ServedFor("request", a) /\ lastHanded[a] >= 0
                 /\ now < lastHanded[a] + Window) => ~Honored(a)
        /\ Handed => \A it \in batch' :
             lastHanded[it.email] < 0 \/ now - lastHanded[it.email] >= Window
      ]_vars

\* C3 as stated: a token is redeemed at most once, and a confirm of the
\* current, unredeemed token of a live record replies true.
CurrentToken(t) ==
    \E a \in DOMAIN status :
        status[a] = t /\ ~heap[t].confirmed /\ t \notin redeemed
C3_SingleUse ==
    [][ ServedOp("confirm") =>
          /\ Reply.ok => Head(q).token \notin redeemed
          /\ CurrentToken(Head(q).token) => Reply.ok
      ]_vars

\* C4 as stated: a confirm replies true iff its token is in the index and
\* maps to an address with a live record; then exactly that record becomes
\* confirmed; a confirm that replies false changes no confirmed flag.
Indexed(t) == t \in DOMAIN token_map /\ token_map[t] \in DOMAIN status
C4_ConfirmIff ==
    [][ ServedOp("confirm") =>
          LET t == Head(q).token IN
          /\ Reply.ok <=> Indexed(t)
          /\ Reply.ok =>
                /\ status' = status
                /\ heap' = [heap EXCEPT ![status[token_map[t]]].confirmed = TRUE]
          /\ ~Reply.ok => heap' = heap /\ status' = status
      ]_vars

\* C5: a request for a sent, unconfirmed record served a resend window or
\* more after sentAt replies true and gives the address a new record with a
\* token never issued before and sent = false, the old token leaves the
\* index, and every later confirm of the old token replies false.
C5_ResendRotates ==
    [][ /\ \A a \in Addresses : Resend(a) =>
              /\ Reply.kind = "bool" /\ Reply.ok
              /\ a \in DOMAIN status'
              /\ status'[a] >= nextToken
              /\ heap'[status'[a]] = [sent |-> FALSE, ts |-> 0, confirmed |-> FALSE,
                                      token |-> status'[a]]
              /\ status'[a] \in DOMAIN token_map' /\ token_map'[status'[a]] = a
              /\ Rec(a).token \notin DOMAIN token_map'
        /\ ServedOp("confirm") /\ Head(q).token \in superseded => ~Reply.ok
      ]_vars

C5_Witness ==
    \E t \in denied : \E a \in DOMAIN status :
        status[a] # t /\ t \notin DOMAIN token_map

\* C6: after a confirm replied true for an address, the next status of the
\* address replies a snapshot with confirmed = 1 and removes the record from
\* both maps, every status after it replies None until a request creates a
\* new record, and no other status reply reports confirmed = 1.
C6_SurfacedOnce ==
    [][ \A a \in Addresses : ServedFor("status", a) =>
          /\ seen[a].n = 0 =>
                /\ Reply.kind = "dict" /\ Reply.confirmed = 1
                /\ a \notin DOMAIN status'
                /\ \A t \in DOMAIN token_map' : token_map'[t] # a
          /\ seen[a].n >= 1 => Reply.kind = "none"
          /\ (Reply.kind = "dict" /\ Reply.confirmed = 1) => seen[a].n = 0
      ]_vars

C6_Witness == \E a \in Addresses : seen[a].n = 1 /\ seen[a].gone

\* C7 as stated: status replies None iff there is no record, and otherwise
\* the snapshot with remaining = max(0, window - (now - sentAt)) when sent
\* and 0 when not.
C7_ExactRemaining ==
    [][ \A a \in Addresses : ServedFor("status", a) =>
          /\ Reply.kind = "none" <=> ~Live(a)
          /\ Live(a) =>
                /\ Reply.kind = "dict"
                /\ Reply.sent = IntOf(Rec(a).sent)
                /\ Reply.confirmed = IntOf(Rec(a).confirmed)
                /\ Reply.timer * TicksPerSecond =
                      IF Rec(a).sent THEN Max(0, Window - (now - Rec(a).ts)) ELSE 0
      ]_vars

\* C7, amended: as C7, with remaining = max(0, window - the whole seconds
\* elapsed since sentAt) (the elapsed time is truncated before subtracting).
WholeSeconds(ticks) == ticks \div TicksPerSecond
C7_TruncatedRemaining ==
    [][ \A a \in Addresses : ServedFor("status", a) =>
          /\ Reply.kind = "none" <=> ~Live(a)
          /\ Live(a) =>
                /\ Reply.kind = "dict"
                /\ Reply.sent = IntOf(Rec(a).sent)
                /\ Reply.confirmed = IntOf(Rec(a).confirmed)
                /\ Reply.timer =
                      IF Rec(a).sent
                      THEN Max(0, RESEND_WINDOW - WholeSeconds(now - Rec(a).ts))
                      ELSE 0
      ]_vars

\* a status reply for a record sent a fraction of a second off the grid
C7_Witness ==
    \E c \in Callers, a \in DOMAIN status :
        /\ futs[c].state = "done" /\ futs[c].kind = "dict" /\ futs[c].sent = 1
        /\ Rec(a).sent /\ (now - Rec(a).ts) % TicksPerSecond # 0
        /\ futs[c].timer = RESEND_WINDOW - WholeSeconds(now - Rec(a).ts)
        /\ futs[c].timer * TicksPerSecond # Window - (now - Rec(a).ts)

\* C8: for a live, unconfirmed record a request replies false exactly when
\* a status at the same instant reports sent = 1 with remaining > 0, and a
\* status reports that exactly when a request at that instant is too soon.
C8_RemainingAgrees ==
    [][ \A a \in Addresses : (Live(a) /\ ~Rec(a).confirmed) =>
          /\ ServedFor("request", a) =>
                (~Reply.ok <=> (Snapshot(Rec(a), now).sent = 1
                                /\ Snapshot(Rec(a), now).timer > 0))
          /\ ServedFor("status", a) =>
                ((Reply.sent = 1 /\ Reply.timer > 0)
                    <=> (Rec(a).sent /\ now - Rec(a).ts < Window))
      ]_vars

\* a status reply with time remaining for an unconfirmed record sent a
\* fraction of a second more than two intervals ago, still inside the window
C8_Witness ==
    \E c \in Callers, a \in DOMAIN status :
        /\ futs[c].state = "done" /\ futs[c].kind = "dict"
        /\ futs[c].sent = 1 /\ futs[c].confirmed = 0
        /\ futs[c].timer = RESEND_WINDOW - 2 * BATCH_INTERVAL
        /\ Rec(a).sent /\ ~Rec(a).confirmed
        /\ now - Rec(a).ts = 2 * Interval + 1
        /\ TooSoon(Rec(a), now)

\* C9: when the delivery call returns, every record object the cycle selected
\* has sent = true and sentAt = the time of the return, whichever of its
\* items failed.
C9_AttemptConsumed ==
    [][ Returned => \A it \in batch :
            /\ it.rec \in DOMAIN heap'
            /\ heap'[it.rec].sent
            /\ heap'[it.rec].ts = now
      ]_vars

\* two records selected, one delivery failed, both marked
C9_Witness ==
    /\ pc = "sleep" /\ Cardinality(batch) = 2
    /\ failed # {} /\ failed # batch
    /\ \A it \in batch : heap[it.rec].sent /\ heap[it.rec].ts = wakeAt - Interval

\* C10 as stated: no outcome of a delivery ends the dispatch loop.
C10_LoopNeverStops == pc # "dead"

\* C11: the message served is the one that arrived first; its handler has
\* completed when the step ends (its future is resolved in the step that
\* dequeues it and no other future changes), so a message is either in the
\* queue with its future pending or served with its future resolved.
Queued == {q[i].fut : i \in 1..Len(q)}
C11_ArrivalOrder ==
    [][ /\ \A c \in Callers : futs[c].state = "pending" <=> c \in Queued
        /\ Served =>
              /\ order # <<>> /\ Head(q).fut = Head(order)
              /\ Reply.state = "done"
              /\ \A c \in Callers \ {Head(q).fut} : futs'[c] = futs[c]
      ]_vars

\* c2's message was served while c1's, which arrived after it, waited
C11_Witness ==
    /\ last.behind = 1
    /\ futs["c2"].state = "done"
    /\ order = <<"c1">> /\ Len(q) = 1 /\ q[1].fut = "c1"

\* C12: a pending future is eventually resolved, whatever the batch sender
\* does; it is resolved by the step that serves its message and by no other,
\* and a resolved future changes only when its caller calls again.
C12_EventuallyReplied ==
    /\ [][ \A c \in Callers :
             /\ (futs[c].state = "pending" /\ futs'[c] # futs[c]) =>
                    (Served /\ Head(q).fut = c /\ futs'[c].state = "done")
             /\ (futs[c].state = "done" /\ futs'[c] # futs[c]) =>
                    (c \in Arrived /\ futs'[c] = Pending)
         ]_vars
    /\ \A c \in Callers : (futs[c].state = "pending") ~> (futs[c].state = "done")

\* a message was served and replied to after the batch sender had ended
C12_Witness ==
    /\ last.at = "dead" /\ pc = "dead"
    /\ q = <<>>
    /\ futs["c1"].state = "done"

\* C13 as stated: no message is handled between a cycle's scan and its marks.
InFlight == pc \in {"connect", "login", "send"}
C13_CycleAtomic == [][ Served => ~InFlight ]_vars

\* C14 as stated: every live record's token is a key of the index and maps to
\* the record's address, and every key of the index is the current token of
\* exactly one live record.
Holders(t) == {a \in DOMAIN status : Rec(a).token = t}
C14_IndexIsInverse ==
    /\ \A a \in DOMAIN status :
          Rec(a).token \in DOMAIN token_map /\ token_map[Rec(a).token] = a
    /\ \A t \in DOMAIN token_map : Cardinality(Holders(t)) = 1

\* C14, amended: every key of the index is the current token of exactly one
\* live record and maps to that record's address; a record's token is put in
\* the index when the record is created and, while the record lives, leaves
\* it only when a confirm for that token is handled.
C14_IndexWithinRecords ==
    [][ /\ \A t \in DOMAIN token_map : Holders(t) = {token_map[t]}
        /\ \A a \in Addresses :
              /\ Honored(a) =>
                    /\ heap'[status'[a]].token \in DOMAIN token_map'
                    /\ token_map'[heap'[status'[a]].token] = a
              /\ ( /\ Live(a) /\ Rec(a).token \in DOMAIN token_map
                   /\ a \in DOMAIN status' /\ status'[a] = status[a]
                   /\ Rec(a).token \notin DOMAIN token_map' )
                  => (ServedOp("confirm") /\ Head(q).token = Rec(a).token)
      ]_vars

\* a confirmed record that is live and no longer indexed
C14_Witness ==
    \E a \in DOMAIN status :
        Rec(a).confirmed /\ Rec(a).token \notin DOMAIN token_map

\* C15: a dispatch cycle hands over no token that an earlier cycle handed
\* over, whether that delivery succeeded or failed.
C15_HandedOnce ==
    [][ Handed => \A it \in batch' : it.rec \notin handed ]_vars

\* a later cycle is in flight while a record handed over by an earlier one is
\* live, sent and left out of it
C15_Witness ==
    /\ pc = "connect"
    /\ \E a \in DOMAIN status :
          /\ Rec(a).token \in handed /\ Rec(a).sent /\ ~Rec(a).confirmed
          /\ \A it \in batch : it.rec # Rec(a).token

\* C16: a request served for a confirmed record replies true, one served
\* for an unconfirmed record sent less than the window ago replies false, and
\* neither changes any record, _status or the token index; a confirmed record
\* stays live and confirmed, with its token, until a status read for its
\* address is served.
C16_NoCycleNoChange ==
    [][ \A a \in Addresses :
          /\ (ServedFor("request", a) /\ Live(a)
                 /\ (Rec(a).confirmed \/ (Rec(a).sent /\ now - Rec(a).ts < Window)))
              => /\ Reply.kind = "bool" /\ (Reply.ok <=> Rec(a).confirmed)
                 /\ heap' = heap /\ status' = status /\ token_map' = token_map
          /\ (Live(a) /\ Rec(a).confirmed /\ ~ServedFor("status", a))
              => /\ a \in DOMAIN status' /\ status'[a] = status[a]
                 /\ heap'[status'[a]].confirmed
                 /\ heap'[status'[a]].token = Rec(a).token
      ]_vars

\* the request served last was refused as too soon, and the sent record is
\* live, unconfirmed and indexed as before
C16_Witness ==
    /\ prev.stage = 2 /\ ~prev.ok /\ ~prev.rotated
    /\ q = <<>>
    /\ prev.email \in DOMAIN status
    /\ Rec(prev.email).sent /\ ~Rec(prev.email).confirmed
    /\ now - Rec(prev.email).ts < Window
    /\ Rec(prev.email).token \in DOMAIN token_map

\* C17 as stated: a token is a key of the index exactly when it is the
\* current token of a live, unconfirmed record, and it then maps to that
\* record's address.
Redeemable(t, a) == a \in DOMAIN status /\ Rec(a).token = t /\ ~Rec(a).confirmed
C17_IndexedIffRedeemable ==
    \A t \in Tokens :
        /\ t \in DOMAIN token_map <=> \E a \in Addresses : Redeemable(t, a)
        /\ t \in DOMAIN token_map => Redeemable(t, token_map[t])

\* C18: a live record with sent = true carries a token that was handed to
\* _send_batch; the marks go to the objects selected at the scan, not to a
\* record a request put in their place during the delivery.
C18_SentWasHanded ==
    \A a \in DOMAIN status : Rec(a).sent => Rec(a).token \in handed

\* the delivery returned and marked the object it had selected, while the
\* address holds the unsent record a request created during the delivery
C18_Witness ==
    /\ pc = "sleep"
    /\ \E it \in batch :
          /\ it.email \in DOMAIN status /\ status[it.email] # it.rec
          /\ heap[it.rec].sent /\ it.rec \in handed
          /\ ~Rec(it.email).sent /\ Rec(it.email).token \notin handed

\* C19 as stated: when a cycle marks its records, every token it handed over
\* is in the index and maps to its address, or its record is confirmed.
C19_NoDeadLink ==
    [][ Returned => \A it \in batch :
            \/ it.rec \in DOMAIN token_map /\ token_map[it.rec] = it.email
            \/ heap[it.rec].confirmed
      ]_vars

\* C20: the sleep of the batch sender is always due within one interval, and
\* unless a delivery call raises, a record that is unsent and unconfirmed
\* when the sleep is over, or while the cycle that selected it is in flight,
\* eventually is sent, confirmed or replaced by a resend.
Unsent(a, t) ==
    /\ a \in DOMAIN status /\ status[a] = t
    /\ ~heap[t].sent /\ ~heap[t].confirmed
Due(a, t) ==
    \/ pc = "sleep" /\ now >= wakeAt
    \/ InFlight /\ [email |-> a, rec |-> t] \in batch
C20_EventuallyDispatched ==
    /\ [](pc = "sleep" => wakeAt <= now + Interval)
    /\ \/ <>(pc = "dead")
       \/ \A a \in Addresses, t \in Tokens :
             (Unsent(a, t) /\ Due(a, t)) ~> ~Unsent(a, t)

\* a record created after the first one has been dispatched by a cycle: it
\* is live, marked sent and still referenced by the batch
C20_Witness ==
    /\ pc = "sleep"
    /\ \E it \in batch :
          /\ it.email \in DOMAIN status /\ status[it.email] = it.rec
          /\ it.rec > 1 /\ heap[it.rec].sent /\ ~heap[it.rec].confirmed

====
